---- MODULE Spec2Model ----
(***************************************************************************)
(* MVP_weather_pit: the simulation core (WeatherPit, WeatherBall) and the  *)
(* voice engine (AudioEngine) as state machines.                           *)
(*                                                                         *)
(* Units.  Times are integer milliseconds, precipitation is in hundredths  *)
(* of an inch, and a ball's life is in units of 1e-7 (LifeOne = 1.0), so   *)
(* that decayRate * deltaTime = (0.001 + precipitation * 0.01) * dt is the *)
(* integer (10 + precipitation) * dt.                                      *)
(*                                                                         *)
(* What the model leaves to its environment.  Ball positions and           *)
(* velocities come from Math.random (constructor, applyWind), so in the    *)
(* pit specification which ball touches the floor and which pair overlaps  *)
(* in a tick are inputs of the tick.  The arithmetic of handleCollision is *)
(* modelled separately and exactly (SpecCollide).  Audio time is not       *)
(* modelled: a voice's onended callback may run at any later step.         *)
(***************************************************************************)
EXTENDS Integers, Sequences, FiniteSets, TLC

\* ------------------------------------------------------------------ bounds
\* A frame's delta time in which a spawn is due (ms).
DtTick == 25000
\* A frame after a long pause of the tab (ms): longer than any ball lives.
DtLong == 1100000
\* A frame's delta time that is shorter than every spawn interval (ms).
DtFrame == 1000
\* Animation frames that may fire in the specification with short frames.
MaxFineTicks == 4
\* Voices (oscillators) that may exist at once.
MaxVoices == 2
\* Deferred second-note callbacks that may be pending at once.
MaxTimers == 1
\* Only the first MaxContactBalls balls of the array make contact (floor, pair).
MaxContactBalls == 2
\* Animation frames that may fire in the specification with contacts.
MaxTicks == 1
\* Velocity components of a colliding pair are -MaxSpeed, 0 or MaxSpeed.
MaxSpeed == 1
\* Masses of a colliding pair range over 1..MaxMass.
MaxMass == 2
\* Frames of DtFrame that fire in the spawn-timer specification.
MaxShortFrames == 1
\* setADSR inputs (hundredths): -AdsrStep, AdsrStep and 100 + AdsrStep.
AdsrStep == 20

\* ------------------------------------------------------- program constants
maxBalls == 50
NoteCount == 25
LifeOne == 10000000

\* --------------------------------------------------------- weather profiles
\* determineScale(condition, cloudCover, temp)
determineScaleWarmAndClear(condition, cloudCover, temp) ==
  condition \in {"Clear", "Clouds"} /\ temp > 59 /\ cloudCover < 50

determineScale(condition, cloudCover, temp) ==
  LET isNiceCondition == condition \in {"Clear", "Clouds"}
      isWarm == temp > 59
      isMostlyClear == cloudCover < 50
  IN  isNiceCondition /\ (isWarm \/ isMostlyClear)

\* getMockWeatherData(location): the demo profiles (precipitation in 1/100 in).
mockConfigs(location) ==
  CASE location = "Dubai" ->
         [temp |-> 95, humidity |-> 45, pressure |-> 1010, precipitation |-> 0,
          cloudCover |-> 10, condition |-> "Clear", precipitationType |-> "none"]
    [] location = "Singapore" ->
         [temp |-> 82, humidity |-> 90, pressure |-> 1012, precipitation |-> 30,
          cloudCover |-> 70, condition |-> "Rain", precipitationType |-> "rain"]
    [] location = "Iceland" ->
         [temp |-> 28, humidity |-> 85, pressure |-> 1005, precipitation |-> 20,
          cloudCover |-> 95, condition |-> "Snow", precipitationType |-> "snow"]
    [] location = "London" ->
         [temp |-> 54, humidity |-> 75, pressure |-> 1015, precipitation |-> 10,
          cloudCover |-> 80, condition |-> "Rain", precipitationType |-> "rain"]
    [] OTHER ->
         [temp |-> 68, humidity |-> 60, pressure |-> 1013, precipitation |-> 4,
          cloudCover |-> 50, condition |-> "Clouds", precipitationType |-> "none"]

getMockWeatherData(location) ==
  LET config == mockConfigs(location)
  IN  [location |-> location,
       temp |-> config.temp, humidity |-> config.humidity,
       pressure |-> config.pressure, precipitation |-> config.precipitation,
       cloudCover |-> config.cloudCover, condition |-> config.condition,
       precipitationType |-> config.precipitationType,
       isMajorScale |-> determineScale(config.condition, config.cloudCover, config.temp)]

\* x || fallback, for a field that is absent (<<>>) or holds the number <<x>>.
orElse(field, fallback) ==
  IF field = <<>> \/ field[1] = 0 THEN fallback ELSE field[1]

\* processWeatherData(data), for data that passed the validation of lines 65-67
\* and carries no name: data.main.temp, data.weather[0].main, and the optional
\* data.main.humidity, data.main.pressure, data.clouds.all, data.rain['1h'] and
\* data.snow['1h'].  Volumes are whole millimetres; precipitationMm * 0.0393701
\* inches is kept in 1/100 in, exact for the volume 0 that the raw data here carry.
processWeatherData(data) ==
  LET cloudCover == orElse(data.clouds, 0)
      precipitationMm == IF data.rain # <<>> THEN orElse(data.rain, 0)
                         ELSE IF data.snow # <<>> THEN orElse(data.snow, 0) ELSE 0
  IN  [location |-> "Unknown",
       temp |-> data.temp, humidity |-> orElse(data.humidity, 0),
       pressure |-> orElse(data.pressure, 1013),
       precipitation |-> (precipitationMm * 393701) \div 100000,
       cloudCover |-> cloudCover, condition |-> data.condition,
       precipitationType |-> IF data.rain # <<>> THEN "rain"
                             ELSE IF data.snow # <<>> THEN "snow" ELSE "none",
       isMajorScale |-> determineScale(data.condition, cloudCover, data.temp)]

\* WeatherBall.applyGravity(): the factor on the base gravity 9.8, in tenths.
gravityMultiplierUniform(wd) == 10

gravityMultiplier(wd) ==
  IF wd.precipitationType = "rain" THEN 15
  ELSE IF wd.precipitationType = "snow" THEN 5
  ELSE 10

\* The profiles the control collaborator hands to the pit.
Profiles == {getMockWeatherData("Dubai"), getMockWeatherData("Singapore")}

Max(a, b) == IF a >= b THEN a ELSE b
Min(a, b) == IF a <= b THEN a ELSE b

\* ------------------------------------------------------------ WeatherPit
\* calculateSpawnInterval(): max(0.3, 2.0 - precipitation * 0.1) seconds, in ms.
calculateSpawnInterval(wd) == Max(300, 2000 - wd.precipitation)

\* calculateBallsPerSpawn() without its base of 3 and without the clamp.
calculateBallsPerSpawnNoBase(wd) ==
  Min(wd.precipitation \div 10, 3) + wd.cloudCover \div 60

\* calculateBallsPerSpawn(): 3 + floor(min(precipitation*10, 3)) + floor(cloudCover/60),
\* clamped to [3,7].
calculateBallsPerSpawn(wd) ==
  LET precip == Min(wd.precipitation \div 10, 3)
      clouds == wd.cloudCover \div 60
  IN  Max(3, Min(7, 3 + precip + clouds))

\* A decay rate of zero.
calculateDecayRateZero(wd) == 0

\* WeatherBall.calculateDecayRate(): 0.001 + precipitation * 0.01 per second,
\* in life units (1e-7) per millisecond.
calculateDecayRate(wd) == 10 + wd.precipitation

\* new WeatherBall(scene, weatherData, noteIndex, ...): life 1.0, mesh created.
\* disposed counts the calls of destroy() on this ball's mesh.
WeatherBall(wd, noteIndex) ==
  [noteIndex |-> noteIndex, life |-> LifeOne,
   decayRate |-> calculateDecayRate(wd), disposed |-> 0, updates |-> 0]

\* The for-loop of spawnBall() without its test of balls.length against maxBalls.
RECURSIVE spawnLoopNoCap(_, _, _)
spawnLoopNoCap(bs, wd, i) ==
  IF i = 0 THEN bs
  ELSE spawnLoopNoCap(Append(bs, WeatherBall(wd, Len(bs) % NoteCount)), wd, i - 1)

\* The for-loop of spawnBall() with noteIndex = balls.length, not reduced mod 25.
RECURSIVE spawnLoopNoMod(_, _, _)
spawnLoopNoMod(bs, wd, i) ==
  IF i = 0 THEN bs
  ELSE IF Len(bs) >= maxBalls THEN bs
  ELSE spawnLoopNoMod(Append(bs, WeatherBall(wd, Len(bs))), wd, i - 1)

\* spawnBall(): the for-loop, i balls still to try.
RECURSIVE spawnLoop(_, _, _)
spawnLoop(bs, wd, i) ==
  IF i = 0 THEN bs
  ELSE IF Len(bs) >= maxBalls THEN bs
  ELSE spawnLoop(Append(bs, WeatherBall(wd, Len(bs) % NoteCount)), wd, i - 1)

spawnBall(bs, wd) == spawnLoop(bs, wd, calculateBallsPerSpawn(wd))

\* WeatherBall.update() without Math.max(0, ...).
ballUpdateNoClamp(b, dt) ==
  [b EXCEPT !.life = b.life - b.decayRate * dt, !.updates = Min(2, b.updates + 1)]

\* WeatherBall.update(deltaTime), lifecycle part: life = max(0, life - decayRate*dt).
ballUpdate(b, dt) ==
  [b EXCEPT !.life = Max(0, b.life - b.decayRate * dt), !.updates = Min(2, b.updates + 1)]

isAlive(b) == b.life > 0

\* WeatherBall.destroy(): scene.remove(mesh), geometry and material disposed.
ballDestroy(b) == [b EXCEPT !.disposed = Min(2, b.disposed + 1)]

\* balls.splice(i, 1)
splice(bs, i) == SubSeq(bs, 1, i - 1) \o SubSeq(bs, i + 1, Len(bs))

\* update(), lines 294-304: the reverse loop over balls[i-1], i = Len(bs) .. 1
\* (1-based here), updating each ball and destroying and splicing out the dead.
\* acc.released counts the destroy() calls, acc.twice tells whether one of them
\* hit a mesh that was disposed before, and acc.tracked is the index of the
\* followed particle in acc.balls (0 once it is spliced out).
\* The loop run forwards, the index advancing after a removal as well.
RECURSIVE updateLoopForwardFrom(_, _, _)
updateLoopForwardFrom(acc, i, dt) ==
  IF i > Len(acc.balls) THEN acc
  ELSE LET ball == ballUpdate(acc.balls[i], dt)
       IN  IF ~isAlive(ball)
           THEN updateLoopForwardFrom([acc EXCEPT !.balls = splice(acc.balls, i),
                                                  !.released = acc.released + 1], i + 1, dt)
           ELSE updateLoopForwardFrom([acc EXCEPT !.balls[i] = ball], i + 1, dt)

updateLoopForward(acc, i, dt) == updateLoopForwardFrom(acc, 1, dt)

RECURSIVE updateLoop(_, _, _)
updateLoop(acc, i, dt) ==
  IF i < 1 THEN acc
  ELSE LET ball == ballUpdate(acc.balls[i], dt)
       IN  IF ~isAlive(ball)
           THEN updateLoop([balls |-> splice(acc.balls, i),
                            released |-> acc.released + 1,
                            inScene |-> acc.inScene + (IF ball.disposed = 0 THEN 1 ELSE 0),
                            twice |-> acc.twice \/ ball.disposed >= 1,
                            tracked |-> IF acc.tracked = i THEN 0
                                        ELSE IF acc.tracked > i THEN acc.tracked - 1
                                        ELSE acc.tracked], i - 1, dt)
           ELSE updateLoop([acc EXCEPT !.balls[i] = ball], i - 1, dt)

\* ------------------------------------------------------------ AudioEngine
\* The engine's state as one value: isInitialized, audioContext ("null", "running",
\* "closed"), activeNotes (the Map noteIndex -> voice, as its set of entries
\* [note, id]) and voices, the oscillators that are sounding: [id, note, stopped],
\* stopped = stopNote has scheduled its release.
VoiceIds == 1..MaxVoices
Notes == 0..(NoteCount - 1)

\* adsr: attack, decay, release in hundredths of a second, sustain in hundredths.
newAudioEngine ==
  [isInitialized |-> FALSE, audioContext |-> "null",
   activeNotes |-> {}, voices |-> {},
   adsr |-> [attack |-> 1, decay |-> 10, sustain |-> 70, release |-> 80]]

UsedIds(A) == {v.id : v \in A.voices} \cup {e.id : e \in A.activeNotes}

HasRoom(A, k) == Cardinality(UsedIds(A)) + k <= MaxVoices

FreshId(A) == CHOOSE i \in VoiceIds : i \notin UsedIds(A) /\ \A j \in 1..(i - 1) : j \in UsedIds(A)

\* init(): a no-op once initialised; otherwise the AudioContext is created, and
\* ok = FALSE is the constructor throwing into the catch.
audioInit(A, ok) ==
  IF A.isInitialized THEN A
  ELSE IF ok THEN [A EXCEPT !.isInitialized = TRUE, !.audioContext = "running"]
  ELSE A

\* Map.has(noteIndex), Map.get(noteIndex), Map.delete(noteIndex), Map.set(noteIndex, value)
mapHas(m, n) == \E e \in m : e.note = n

mapGet(m, n) == (CHOOSE e \in m : e.note = n).id

mapDelete(m, n) == {e \in m : e.note # n}

mapSet(m, n, x) == mapDelete(m, n) \cup {[note |-> n, id |-> x]}

mapKeys(m) == {e.note : e \in m}

\* stopNote() without its activeNotes.delete(noteIndex).
stopNoteKeepsSlot(A, n) ==
  IF mapHas(A.activeNotes, n)
  THEN [A EXCEPT
          !.voices = {IF v.id = mapGet(A.activeNotes, n) THEN [v EXCEPT !.stopped = TRUE] ELSE v
                      : v \in A.voices}]
  ELSE A

\* stopNote(noteIndex): the registered voice gets its release ramp and
\* oscillator.stop(now + release) scheduled, and the entry is deleted.
stopNote(A, n) ==
  IF mapHas(A.activeNotes, n)
  THEN [A EXCEPT
          !.voices = {IF v.id = mapGet(A.activeNotes, n) THEN [v EXCEPT !.stopped = TRUE] ELSE v
                      : v \in A.voices},
          !.activeNotes = mapDelete(A.activeNotes, n)]
  ELSE A

\* playNote() without its test of isInitialized and audioContext.
playNoteUnguarded(A, n) ==
  LET B == stopNote(A, n)
  IN  [B EXCEPT !.activeNotes = mapSet(B.activeNotes, n, FreshId(B))]

\* playNote(noteIndex, isMajor, velocity, duration): a no-op before init; else
\* stopNote(noteIndex), a new oscillator started, and activeNotes.set(noteIndex, it).
\* On a closed context the oscillator is registered but renders nothing.
playNote(A, n) ==
  IF ~A.isInitialized \/ A.audioContext = "null" THEN A
  ELSE LET B == stopNote(A, n)
           id == FreshId(B)
       IN  [B EXCEPT
              !.voices = IF B.audioContext = "running"
                         THEN B.voices \cup {[id |-> id, note |-> n, stopped |-> FALSE]}
                         ELSE B.voices,
              !.activeNotes = mapSet(B.activeNotes, n, id)]

\* onended without its activeNotes.delete(noteIndex).
onendedKeepsEntry(A, v) == [A EXCEPT !.voices = A.voices \ {v}]

\* oscillator.onended of voice v: the nodes are disconnected and
\* activeNotes.delete(noteIndex) runs, whichever voice is registered there.
onended(A, v) ==
  [A EXCEPT !.voices = A.voices \ {v},
            !.activeNotes = mapDelete(A.activeNotes, v.note)]

\* setADSR() storing the provided fields as they are.
setADSRUnclamped(A, params) ==
  [A EXCEPT !.adsr =
     [f \in {"attack", "decay", "sustain", "release"} |->
        IF params[f] = <<>> THEN A.adsr[f] ELSE params[f][1]]]

\* setADSR(adsrParams): a field of params is <<>> (undefined) or <<value>>.
setADSR(A, params) ==
  [A EXCEPT !.adsr =
     [attack |-> IF params.attack # <<>> THEN Max(0, params.attack[1]) ELSE A.adsr.attack,
      decay |-> IF params.decay # <<>> THEN Max(0, params.decay[1]) ELSE A.adsr.decay,
      sustain |-> IF params.sustain # <<>> THEN Max(0, Min(100, params.sustain[1]))
                  ELSE A.adsr.sustain,
      release |-> IF params.release # <<>> THEN Max(0, params.release[1])
                  ELSE A.adsr.release]]

\* getADSR(): a copy of the stored envelope
getADSR(A) == A.adsr

\* stopAll(): activeNotes.forEach((_, noteIndex) => stopNote(noteIndex))
RECURSIVE stopAllLoop(_, _)
stopAllLoop(A, keys) ==
  IF keys = {} THEN A
  ELSE LET n == CHOOSE k \in keys : \A m \in keys : k <= m
       IN  stopAllLoop(stopNote(A, n), keys \ {n})

stopAll(A) == stopAllLoop(A, mapKeys(A.activeNotes))

\* AudioEngine.destroy(): stopAll(), then audioContext.close(): nothing sounds
\* on a closed context.
audioDestroy(A) ==
  LET B == stopAll(A)
  IN  IF B.audioContext = "null" THEN B
      ELSE [B EXCEPT !.audioContext = "closed", !.voices = {}]

\* ------------------------------------------------------------------ state
VARIABLES
  isRunning,      \* WeatherPit.isRunning
  animationId,    \* WeatherPit.animationId (0 = null)
  frames,         \* the host's pending requestAnimationFrame callbacks (ids)
  weatherData,    \* WeatherPit.weatherData
  spawnInterval,  \* WeatherPit.spawnInterval
  spawnTimer,     \* WeatherPit.spawnTimer
  balls,          \* WeatherPit.balls
  sceneMeshes,    \* number of ball meshes that are children of the scene
  disposedTwice,  \* history: some mesh had destroy() called on it twice
  spawned,        \* history: the last spawn event, <<>> or <<[before, added, perSpawn]>>
  tracked,        \* history: the index in balls of one particle that is followed, 0 = none
  audio,          \* WeatherPit.audioEngine
  timers,         \* the host's pending setTimeout callbacks: ball1.noteIndex of each
  lastCall,       \* history: the operation that ran last, [op, arg]
  destroyed,      \* history: destroy() has been called
  ticks,          \* history: animation frames fired (Spec counts them, to bound them)
  pair,           \* the pair of balls handed to handleCollision (SpecCollide)
  app             \* the client App: currentWeatherData, weatherPit, its request

vars == <<isRunning, animationId, frames, weatherData, spawnInterval, spawnTimer,
          balls, sceneMeshes, disposedTwice, spawned, tracked, audio, timers, lastCall,
          destroyed, ticks, pair, app>>

\* The pit driven directly, without the client App.
noApp == <<>>

\* lastCall: the operation, its argument, and the balls it found in the collection
\* (recorded for updateWeather and destroy).
Call(op, arg, had) == [op |-> op, arg |-> arg, had |-> had]

\* The part of the pit that update() reads and writes, as one value.
Pit ==
  [weatherData |-> weatherData, spawnInterval |-> spawnInterval,
   spawnTimer |-> spawnTimer, balls |-> balls, sceneMeshes |-> sceneMeshes,
   disposedTwice |-> disposedTwice, spawned |-> spawned, tracked |-> tracked,
   follow |-> FALSE, audio |-> audio, timers |-> timers]

SetPit(P) ==
  /\ weatherData' = P.weatherData
  /\ spawnInterval' = P.spawnInterval
  /\ spawnTimer' = P.spawnTimer
  /\ balls' = P.balls
  /\ sceneMeshes' = P.sceneMeshes
  /\ disposedTwice' = P.disposedTwice
  /\ spawned' = P.spawned
  /\ tracked' = P.tracked
  /\ audio' = P.audio
  /\ timers' = P.timers

\* The balls whose update() may report a floor contact with sound in this tick
\* (checkBoundaries: moving down, bounceVelocity > 0.1), by noteIndex; <<>> = none.
\* k = how many leading balls of the array may touch anything.
BounceChoices(bs, k) ==
  {<<>>} \cup {<<bs[i].noteIndex>> : i \in 1..Min(k, Len(bs))}

\* The pairs (ball1 = balls[i], ball2 = balls[j], i < j) that checkCollisions may find
\* overlapping and handleCollision resolves (no early return), by noteIndex.
HitChoices(bs, k) ==
  LET C == 1..Min(k, Len(bs))
  IN  {<<>>} \cup
      {<<bs[q[1]].noteIndex, bs[q[2]].noteIndex>> : q \in {r \in C \X C : r[1] < r[2]}}

\* The notes one tick triggers fit the model's bounds.
Fits(P, bounce, hit) ==
  /\ \/ ~P.audio.isInitialized
     \/ HasRoom(P.audio, Len(bounce) + (IF hit = <<>> THEN 0 ELSE 1))
  /\ hit # <<>> => Len(P.timers) < MaxTimers

\* The spawn step with the timer reset only when a ball was added.
updateSpawnResetsOnSpawn(P, dt) ==
  LET timer == P.spawnTimer + dt
      bs == spawnBall(P.balls, P.weatherData)
  IN  IF timer >= P.spawnInterval /\ Len(bs) > Len(P.balls)
      THEN [P EXCEPT !.balls = bs, !.spawnTimer = 0,
                     !.sceneMeshes = P.sceneMeshes + (Len(bs) - Len(P.balls)),
                     !.spawned = <<[before |-> Len(P.balls),
                                    added |-> Len(bs) - Len(P.balls),
                                    perSpawn |-> calculateBallsPerSpawn(P.weatherData)]>>]
      ELSE [P EXCEPT !.spawnTimer = timer]

\* update(), lines 287-292: the spawn timer and spawnBall().
updateSpawn(P, dt) ==
  LET timer == P.spawnTimer + dt
  IN  IF timer >= P.spawnInterval
      THEN LET bs == spawnBall(P.balls, P.weatherData)
           IN  [P EXCEPT !.balls = bs, !.spawnTimer = 0,
                         !.sceneMeshes = P.sceneMeshes + (Len(bs) - Len(P.balls)),
                         !.spawned = <<[before |-> Len(P.balls),
                                        added |-> Len(bs) - Len(P.balls),
                                        perSpawn |-> calculateBallsPerSpawn(P.weatherData)]>>]
      ELSE [P EXCEPT !.spawnTimer = timer]

\* The collection as the update loop finds it: no ball updated in this tick yet.
RECURSIVE unvisited(_)
unvisited(bs) ==
  IF bs = <<>> THEN <<>>
  ELSE <<[Head(bs) EXCEPT !.updates = 0]>> \o unvisited(Tail(bs))

\* update(), lines 294-304: every ball updated (one may sound on the floor), the
\* dead destroyed and removed.
updateBalls(P, dt, bounce) ==
  LET acc == updateLoop([balls |-> unvisited(P.balls),
                         released |-> 0, inScene |-> 0,
                         twice |-> FALSE,
                         tracked |-> IF P.follow /\ P.tracked = 0 THEN Len(P.balls)
                                     ELSE P.tracked], Len(P.balls), dt)
  IN  [P EXCEPT !.balls = acc.balls,
                !.tracked = acc.tracked,
                !.sceneMeshes = P.sceneMeshes - acc.inScene,
                !.disposedTwice = P.disposedTwice \/ acc.twice,
                !.audio = IF bounce = <<>> THEN P.audio ELSE playNote(P.audio, bounce[1])]

\* handleCollision(ball1, ball2), lines 271-278: ball2's note now, ball1's note
\* in a setTimeout of 20 ms.
handleCollisionNotes(P, hit) ==
  IF hit = <<>> THEN P
  ELSE [P EXCEPT !.audio = playNote(P.audio, hit[2]),
                 !.timers = Append(P.timers, hit[1])]

\* update(): the outcomes of one tick with delta time dt.
update(P, dt, k) ==
  LET P1 == updateSpawn(P, dt)
  IN  UNION {
        LET P2 == updateBalls(P1, dt, bounce)
        IN  {handleCollisionNotes(P2, hit) :
               hit \in {h \in HitChoices(P2.balls, k) : Fits(P1, bounce, h)}}
        : bounce \in {b \in BounceChoices(P1.balls, k) : Fits(P1, b, <<>>)}}

\* requestAnimationFrame(callback): the id of the new pending callback, one that
\* no pending callback has.
FrameIds == 1..3

requestAnimationFrame(pending) ==
  CHOOSE id \in FrameIds : id \notin pending /\ \A j \in 1..(id - 1) : j \in pending

\* animate(), after the isRunning test: the next frame is requested, then update()
\* and render().  fired = the frame callback this call runs in (0 = called by start()).
animateRunning(P, dt, fired, k) ==
  /\ animationId' = requestAnimationFrame(frames \ {fired})
  /\ frames' = (frames \ {fired}) \cup {requestAnimationFrame(frames \ {fired})}
  /\ \E Q \in update(P, dt, k) : SetPit(Q)

\* A host whose cancelAnimationFrame does nothing.
cancelAnimationFrameIgnored(fs, id) == fs

\* cancelAnimationFrame(animationId)
cancelAnimationFrame(fs, id) == fs \ {id}

\* start(): a no-op when running; else isRunning, clock.start(), audioEngine.init()
\* and animate(), whose first getDelta() is 0.
start(k) ==
  /\ lastCall' = Call("start", "", 0)
  /\ UNCHANGED <<destroyed, pair>>
  /\ IF isRunning
     THEN UNCHANGED <<isRunning, animationId, frames, weatherData, spawnInterval,
                      spawnTimer, balls, sceneMeshes, disposedTwice, spawned, tracked, audio, timers>>
     ELSE /\ isRunning' = TRUE
          /\ \E ok \in BOOLEAN :
               animateRunning([Pit EXCEPT !.audio = audioInit(audio, ok)], 0, 0, k)

\* stop() without its assignment to isRunning.
stopKeepsRunState ==
  /\ lastCall' = Call("stop", "", 0)
  /\ frames' = IF animationId # 0 THEN cancelAnimationFrame(frames, animationId) ELSE frames
  /\ audio' = stopAll(audio)
  /\ UNCHANGED <<isRunning, animationId, weatherData, spawnInterval, spawnTimer, balls,
                 sceneMeshes, disposedTwice, spawned, tracked, timers, destroyed, pair>>

\* stop(): isRunning = false, the pending frame cancelled, audioEngine.stopAll().
stop ==
  /\ lastCall' = Call("stop", "", 0)
  /\ isRunning' = FALSE
  /\ frames' = IF animationId # 0 THEN cancelAnimationFrame(frames, animationId) ELSE frames
  /\ audio' = stopAll(audio)
  /\ UNCHANGED <<animationId, weatherData, spawnInterval, spawnTimer, balls,
                 sceneMeshes, disposedTwice, spawned, tracked, timers, destroyed, pair>>

\* A pending animation frame fires: animate().  follow = the observer starts to
\* follow the newest particle of this tick if it follows none.
frame(id, dt, k, follow) ==
  /\ id \in frames
  /\ UNCHANGED <<isRunning, destroyed, pair>>
  /\ IF ~isRunning
     THEN /\ lastCall' = Call("frame", "return", 0)
          /\ frames' = frames \ {id}
          /\ UNCHANGED <<animationId, weatherData, spawnInterval, spawnTimer, balls,
                         sceneMeshes, disposedTwice, spawned, tracked, audio, timers>>
     ELSE /\ lastCall' = Call("frame", "update", 0)
          /\ animateRunning([Pit EXCEPT !.follow = follow], dt, id, k)

\* balls.forEach(ball => ball.destroy())
destroyAll(bs) == [i \in DOMAIN bs |-> ballDestroy(bs[i])]

InScene(bs) == Cardinality({i \in DOMAIN bs : bs[i].disposed = 0})

\* updateWeather() without this.balls = [] and without the reset of spawnTimer.
updateWeatherKeepsBalls(p) ==
  /\ lastCall' = Call("updateWeather", p.location, Len(balls))
  /\ weatherData' = p
  /\ spawnInterval' = calculateSpawnInterval(p)
  /\ sceneMeshes' = sceneMeshes - InScene(balls)
  /\ disposedTwice' = (disposedTwice \/ \E i \in DOMAIN balls : balls[i].disposed >= 1)
  /\ balls' = destroyAll(balls)
  /\ UNCHANGED <<isRunning, animationId, frames, spawnTimer, spawned, tracked, audio, timers,
                 destroyed, pair>>

\* updateWeather(newWeatherData)
updateWeather(p) ==
  /\ lastCall' = Call("updateWeather", p.location, Len(balls))
  /\ weatherData' = p
  /\ spawnInterval' = calculateSpawnInterval(p)
  /\ sceneMeshes' = sceneMeshes - InScene(balls)
  /\ disposedTwice' = (disposedTwice \/ \E i \in DOMAIN balls : balls[i].disposed >= 1)
  /\ balls' = <<>>
  /\ spawnTimer' = 0
  /\ tracked' = 0
  /\ UNCHANGED <<isRunning, animationId, frames, spawned, audio, timers, destroyed,
                 pair>>

\* destroy(): stop(), every ball destroyed (the array is kept), audioEngine.destroy().
destroy ==
  /\ lastCall' = Call("destroy", "", Len(balls))
  /\ destroyed' = TRUE
  /\ isRunning' = FALSE
  /\ frames' = IF animationId # 0 THEN cancelAnimationFrame(frames, animationId) ELSE frames
  /\ balls' = destroyAll(balls)
  /\ sceneMeshes' = sceneMeshes - InScene(balls)
  /\ disposedTwice' = (disposedTwice \/ \E i \in DOMAIN balls : balls[i].disposed >= 1)
  /\ audio' = audioDestroy(stopAll(audio))
  /\ UNCHANGED <<animationId, weatherData, spawnInterval, spawnTimer, spawned, tracked, timers,
                 pair>>

\* The 20 ms setTimeout of handleCollision fires: playNote(ball1.noteIndex, ...).
timerFire ==
  /\ timers # <<>>
  /\ ~audio.isInitialized \/ HasRoom(audio, 1)
  /\ lastCall' = Call("timer", "", 0)
  /\ audio' = playNote(audio, Head(timers))
  /\ timers' = Tail(timers)
  /\ UNCHANGED <<isRunning, animationId, frames, weatherData, spawnInterval,
                 spawnTimer, balls, sceneMeshes, disposedTwice, spawned, tracked, destroyed, pair>>

\* A voice's release ends: its oscillator.onended callback runs.
voiceEnded(v) ==
  /\ v \in audio.voices
  /\ lastCall' = Call("onended", "", 0)
  /\ audio' = onended(audio, v)
  /\ UNCHANGED <<isRunning, animationId, frames, weatherData, spawnInterval,
                 spawnTimer, balls, sceneMeshes, disposedTwice, spawned, tracked, timers,
                 destroyed, pair>>

\* new WeatherPit(container, weatherData): the constructor and init().
Init ==
  /\ isRunning = FALSE
  /\ animationId = 0
  /\ frames = {}
  /\ weatherData \in Profiles
  /\ spawnInterval = calculateSpawnInterval(weatherData)
  /\ spawnTimer = 0
  /\ balls = <<>>
  /\ sceneMeshes = 0
  /\ disposedTwice = FALSE
  /\ spawned = <<>>
  /\ tracked = 0
  /\ \E ok \in BOOLEAN : audio = audioInit(newAudioEngine, ok)
  /\ timers = <<>>
  /\ lastCall = Call("new", weatherData.location, 0)
  /\ destroyed = FALSE
  /\ ticks = 0
  /\ app = noApp
  /\ pair = <<>>

DeltaTimes == {DtTick, DtLong}

\* The pit with its audio engine and the host's callbacks.  The owner does not
\* start a pit again after destroy(), and MaxTicks frames fire.
Next ==
  \/ ~destroyed /\ start(MaxContactBalls) /\ UNCHANGED <<ticks, app>>
  \/ stop /\ UNCHANGED <<ticks, app>>
  \/ /\ ticks < MaxTicks
     /\ ticks' = ticks + 1
     /\ UNCHANGED app
     /\ \E id \in FrameIds, dt \in DeltaTimes : frame(id, dt, MaxContactBalls, FALSE)
  \/ \E p \in Profiles : updateWeather(p) /\ UNCHANGED <<ticks, app>>
  \/ destroy /\ UNCHANGED <<ticks, app>>
  \/ timerFire /\ UNCHANGED <<ticks, app>>
  \/ \E v \in audio.voices : voiceEnded(v) /\ UNCHANGED <<ticks, app>>

Spec == Init /\ [][Next]_vars

\* The pit over any number of frames, in which no ball touches the floor with
\* sound and no pair overlaps: population, lifecycle and mesh resources.
NextPop ==
  \/ ~destroyed /\ start(0) /\ UNCHANGED <<ticks, app>>
  \/ stop /\ UNCHANGED <<ticks, app>>
  \/ \E id \in FrameIds, dt \in DeltaTimes : frame(id, dt, 0, FALSE) /\ UNCHANGED <<ticks, app>>
  \/ \E p \in Profiles : updateWeather(p) /\ UNCHANGED <<ticks, app>>
  \/ destroy /\ UNCHANGED <<ticks, app>>

SpecPop == Init /\ [][NextPop]_vars

\* The pit with frames shorter than the spawn interval among its delta times,
\* over MaxFineTicks frames, without contacts: the spawn timer and ball lifetimes.
DeltaTimesFine == {DtFrame, DtTick, DtLong}

NextFine ==
  \/ ~destroyed /\ start(0) /\ UNCHANGED <<ticks, app>>
  \/ stop /\ UNCHANGED <<ticks, app>>
  \/ /\ ticks < MaxFineTicks
     /\ ticks' = ticks + 1
     /\ UNCHANGED app
     /\ \E id \in FrameIds, dt \in DeltaTimesFine : frame(id, dt, 0, FALSE)
  \/ \E p \in Profiles : updateWeather(p) /\ UNCHANGED <<ticks, app>>
  \/ destroy /\ UNCHANGED <<ticks, app>>

SpecFine == Init /\ [][NextFine]_vars

\* The pit kept Running over any number of frames of DtTick and MaxShortFrames
\* frames of DtFrame, shorter than every spawn interval, without contacts: the
\* spawn timer from its accumulation up to the population cap.
NextTimer ==
  \/ start(0) /\ UNCHANGED <<ticks, app>>
  \/ \E id \in FrameIds : frame(id, DtTick, 0, FALSE) /\ UNCHANGED <<ticks, app>>
  \/ /\ ticks < MaxShortFrames
     /\ ticks' = ticks + 1
     /\ UNCHANGED app
     /\ \E id \in FrameIds : frame(id, DtFrame, 0, FALSE)

SpecTimer == Init /\ [][NextTimer]_vars

\* The pit started and kept Running, never given a new profile: the host keeps
\* delivering animation frames (each with a positive delta time), and an
\* observer follows one particle at a time from its spawn.  Here ticks is the
\* parity of the frames fired.
Tick == \E id \in FrameIds, dt \in DeltaTimes, follow \in BOOLEAN : frame(id, dt, 0, follow)

NextLife ==
  \/ start(0) /\ UNCHANGED <<ticks, app>>
  \/ Tick /\ ticks' = 1 - ticks /\ UNCHANGED app

\* The host runs a pending animation frame callback: a step of Tick.
FrameDelivered == isRunning /\ frames # {} /\ ticks' = 1 - ticks

SpecLife == Init /\ [][NextLife]_vars /\ WF_ticks(FrameDelivered)

\* ------------------------------------------------ the engine driven directly
\* The AudioEngine under calls of its own interface, on the note indices of the
\* first MaxContactBalls balls; the pit around it is at rest.
ApiNotes == 0..(MaxContactBalls - 1)

PitAtRest ==
  UNCHANGED <<isRunning, animationId, frames, weatherData, spawnInterval, spawnTimer,
              balls, sceneMeshes, disposedTwice, spawned, tracked, timers, destroyed, ticks, pair,
              app>>

InitAudio ==
  /\ isRunning = FALSE
  /\ animationId = 0
  /\ frames = {}
  /\ weatherData = getMockWeatherData("Dubai")
  /\ spawnInterval = calculateSpawnInterval(weatherData)
  /\ spawnTimer = 0
  /\ balls = <<>>
  /\ sceneMeshes = 0
  /\ disposedTwice = FALSE
  /\ spawned = <<>>
  /\ tracked = 0
  /\ audio = newAudioEngine
  /\ timers = <<>>
  /\ lastCall = Call("new", "", 0)
  /\ destroyed = FALSE
  /\ ticks = 0
  /\ app = noApp
  /\ pair = <<>>

\* await audioEngine.init()
engineInit(ok) ==
  /\ lastCall' = Call("init", "", 0)
  /\ audio' = audioInit(audio, ok)
  /\ PitAtRest

\* audioEngine.playNote(n, ...)
enginePlayNote(n) ==
  /\ ~audio.isInitialized \/ HasRoom(audio, 1)
  /\ lastCall' = Call("playNote", ToString(n), 0)
  /\ audio' = playNote(audio, n)
  /\ PitAtRest

\* audioEngine.stopNote(n)
engineStopNote(n) ==
  /\ lastCall' = Call("stopNote", ToString(n), 0)
  /\ audio' = stopNote(audio, n)
  /\ PitAtRest

\* audioEngine.stopAll()
engineStopAll ==
  /\ lastCall' = Call("stopAll", "", 0)
  /\ audio' = stopAll(audio)
  /\ PitAtRest

\* oscillator.onended of a sounding voice
engineVoiceEnded(v) ==
  /\ v \in audio.voices
  /\ lastCall' = Call("onended", ToString(v.note), 0)
  /\ audio' = onended(audio, v)
  /\ PitAtRest

NextAudio ==
  \/ \E ok \in BOOLEAN : engineInit(ok)
  \/ \E n \in ApiNotes : enginePlayNote(n)
  \/ \E n \in ApiNotes : engineStopNote(n)
  \/ engineStopAll
  \/ \E v \in audio.voices : engineVoiceEnded(v)

SpecAudio == InitAudio /\ [][NextAudio]_vars

\* The audio clock advances: oscillator.stop(releaseEnd) is scheduled at a finite
\* time, so the onended callback of every voice that exists does run.
EndOf(id) == \E v \in audio.voices : v.id = id /\ engineVoiceEnded(v)

SpecAudioLive == SpecAudio /\ \A id \in VoiceIds : WF_vars(EndOf(id))

\* The engine's envelope under setADSR calls (App.updateADSR and any other caller),
\* with finite numbers below, inside and above the clamped ranges.
AdsrValues == {0 - AdsrStep, AdsrStep, 100 + AdsrStep}

AdsrField == {<<>>} \cup {<<x>> : x \in AdsrValues}

engineSetADSR(params) ==
  /\ lastCall' = Call("setADSR", params, 0)
  /\ audio' = setADSR(audio, params)
  /\ PitAtRest

NextADSR ==
  \E a \in AdsrField, d \in AdsrField, su \in AdsrField, r \in AdsrField :
    engineSetADSR([attack |-> a, decay |-> d, sustain |-> su, release |-> r])

SpecADSR == InitAudio /\ [][NextADSR]_vars

\* ------------------------------------------------- the envelope of playNote
\* AudioParam.exponentialRampToValueAtTime(value, endTime) of the host's Web
\* Audio implementation throws a RangeError for a target value of 0.
exponentialRampRaises(value) == value = 0

\* playNote(), lines 112-146: volume in thousandths, sustainVolume in 1e-5,
\* times in hundredths of a second.  The statements run in order, so that the
\* ramp that raises leaves the oscillator neither started nor given a stop
\* time (stop = <<>>).
scheduleEnvelope(adsr, velocity, duration, now) ==
  LET volume == Min(400, velocity)
      sustainVolume == volume * adsr.sustain
      attackEnd == now + adsr.attack
      decayEnd == attackEnd + adsr.decay
      sustainEnd == decayEnd + Max(0, duration - adsr.attack - adsr.decay)
      releaseEnd == sustainEnd + adsr.release
  IN  [adsr |-> adsr, velocity |-> velocity, duration |-> duration, now |-> now,
       volume |-> volume, sustainVolume |-> sustainVolume,
       attackEnd |-> attackEnd, decayEnd |-> decayEnd,
       sustainEnd |-> sustainEnd, releaseEnd |-> releaseEnd,
       raised |-> exponentialRampRaises(sustainVolume),
       stop |-> IF exponentialRampRaises(sustainVolume) THEN <<>> ELSE <<releaseEnd>>]

\* playNote(noteIndex, isMajor, velocity, duration) with its envelope: where a
\* ramp raises, stopNote(noteIndex) has run and the new oscillator is neither
\* started nor registered.
playNoteEnvelope(A, n, velocity, duration) ==
  IF ~A.isInitialized \/ A.audioContext = "null" THEN A
  ELSE IF scheduleEnvelope(A.adsr, velocity, duration, 0).raised THEN stopNote(A, n)
  ELSE playNote(A, n)

\* The velocities (hundredths) and durations (hundredths of a second) handed
\* to playNote, and the context's currentTime at the call.
NoteVelocities == {0, 11, 100, 500}

NoteDurations == {0 - 10, 0, 20, 30, 200}

CurrentTimes == {0, 250}

\* audioEngine.playNote(n, isMajor, velocity, duration) at currentTime now
enginePlayNoteEnvelope(n, velocity, duration, now) ==
  /\ ~audio.isInitialized \/ HasRoom(audio, 1)
  /\ lastCall' = Call("playNote",
                      IF ~audio.isInitialized \/ audio.audioContext = "null" THEN <<>>
                      ELSE <<scheduleEnvelope(audio.adsr, velocity, duration, now)>>, 0)
  /\ audio' = playNoteEnvelope(audio, n, velocity, duration)
  /\ PitAtRest

\* The engine under setADSR calls on attack and sustain and playNote calls of
\* one note index.
NextEnvelope ==
  \/ \E ok \in BOOLEAN : engineInit(ok)
  \/ \E a \in AdsrField, su \in AdsrField :
       engineSetADSR([attack |-> a, decay |-> <<>>, sustain |-> su, release |-> <<>>])
  \/ \E velocity \in NoteVelocities, duration \in NoteDurations, now \in CurrentTimes :
       enginePlayNoteEnvelope(0, velocity, duration, now)
  \/ \E v \in audio.voices : engineVoiceEnded(v)

SpecEnvelope == InitAudio /\ [][NextEnvelope]_vars

\* ------------------------------------------------------ the weather service
\* fetchWeather(location) of the service answers with getMockWeatherData(location)
\* in demo mode and with processWeatherData(response.data) otherwise; the client
\* builds the pit from the profile and, while the pit runs, hands every later
\* profile to updateWeather.
MockLocations == {"London", "Dubai", "Iceland", "Singapore", "Paris"}

RawData ==
  [temp : {58, 59, 60}, condition : {"Clear", "Clouds", "Rain", "Snow"},
   humidity : {<<>>}, pressure : {<<>>},
   clouds : {<<>>, <<49>>, <<50>>, <<95>>}, rain : {<<>>, <<0>>}, snow : {<<>>, <<0>>}]

InitService ==
  /\ isRunning = FALSE
  /\ animationId = 0
  /\ frames = {}
  /\ \/ \E location \in MockLocations : weatherData = getMockWeatherData(location)
     \/ \E data \in RawData : weatherData = processWeatherData(data)
  /\ spawnInterval = calculateSpawnInterval(weatherData)
  /\ spawnTimer = 0
  /\ balls = <<>>
  /\ sceneMeshes = 0
  /\ disposedTwice = FALSE
  /\ spawned = <<>>
  /\ tracked = 0
  /\ audio = newAudioEngine
  /\ timers = <<>>
  /\ lastCall = Call("new", "", 0)
  /\ destroyed = FALSE
  /\ ticks = 0
  /\ app = noApp
  /\ pair = <<>>

\* App.fetchWeather() in demo mode, the pit running.
fetchWeatherMock(location) ==
  /\ isRunning
  /\ updateWeather(getMockWeatherData(location))
  /\ UNCHANGED <<ticks, app>>

\* App.fetchWeather() against the weather API, the pit running.
fetchWeatherLive(data) ==
  /\ isRunning
  /\ updateWeather(processWeatherData(data))
  /\ UNCHANGED <<ticks, app>>

NextService ==
  \/ start(0) /\ UNCHANGED <<ticks, app>>
  \/ \E location \in MockLocations : fetchWeatherMock(location)
  \/ \E data \in RawData : fetchWeatherLive(data)
  \/ /\ ticks < MaxTicks
     /\ ticks' = ticks + 1
     /\ UNCHANGED app
     /\ \E id \in FrameIds, dt \in DeltaTimes : frame(id, dt, 0, FALSE)

SpecService == InitService /\ [][NextService]_vars

\* ------------------------------------------------------------ the client App
\* At most MaxRequests fetches are in flight at once.
MaxRequests == 1

\* locationInput.value.trim()
AppLocations == {"", "Dubai", "Iceland"}

\* What the weather service meets upstream: demo mode, an answer of the weather
\* API, or a failure of the API (network, 401, 404, invalid data).
Upstreams ==
  {[kind |-> "mock", data |-> <<>>], [kind |-> "error", data |-> <<>>]} \cup
  {[kind |-> "live", data |-> <<d>>] :
     d \in {r \in RawData : r.temp = 60 /\ r.clouds = <<49>> /\ r.snow = <<>>
                             /\ r.condition \in {"Clear", "Rain"}
                             /\ (r.rain # <<>> <=> r.condition = "Rain")}}

\* app.get('/api/weather'): 400 without a location, 500 when fetchWeather throws,
\* else the profile as JSON.
apiWeather(location, upstream) ==
  IF location = "" THEN [ok |-> FALSE, status |-> 400, body |-> <<>>]
  ELSE IF upstream.kind = "error" THEN [ok |-> FALSE, status |-> 500, body |-> <<>>]
  ELSE IF upstream.kind = "mock"
       THEN [ok |-> TRUE, status |-> 200, body |-> <<getMockWeatherData(location)>>]
  ELSE [ok |-> TRUE, status |-> 200, body |-> <<processWeatherData(upstream.data[1])>>]

\* A catch block that forgets the profile.
catchFetchErrorForgets(a) == [a EXCEPT !.currentWeatherData = <<>>]

\* App.fetchWeather(), its catch block: the error is logged and shown.
catchFetchError(a) == a

\* The positions of the four ADSR sliders, in the units of setADSR (1/100).
SliderPositions ==
  {[attack |-> <<1>>, decay |-> <<10>>, sustain |-> <<70>>, release |-> <<80>>],
   [attack |-> <<AdsrStep>>, decay |-> <<AdsrStep>>, sustain |-> <<AdsrStep>>,
    release |-> <<AdsrStep>>]}

\* new App(): no pit, no profile, nothing in flight.  The pit's variables hold
\* placeholders until startPit() builds the pit; the buttons start as the page
\* declares them.
InitApp ==
  /\ isRunning = FALSE
  /\ animationId = 0
  /\ frames = {}
  /\ weatherData = getMockWeatherData("Paris")
  /\ spawnInterval = calculateSpawnInterval(weatherData)
  /\ spawnTimer = 0
  /\ balls = <<>>
  /\ sceneMeshes = 0
  /\ disposedTwice = FALSE
  /\ spawned = <<>>
  /\ tracked = 0
  /\ audio = newAudioEngine
  /\ timers = <<>>
  /\ lastCall = Call("new", "", 0)
  /\ destroyed = FALSE
  /\ ticks = 0
  /\ pair = <<>>
  /\ \E sl \in SliderPositions, startOff \in BOOLEAN, stopOff \in BOOLEAN :
       app = [weatherPit |-> FALSE, currentWeatherData |-> <<>>, requests |-> <<>>,
              pc |-> "idle", sliders |-> sl,
              startBtnDisabled |-> startOff, stopBtnDisabled |-> stopOff]

\* The pit's own variables.
pitVars ==
  <<isRunning, animationId, frames, weatherData, spawnInterval, spawnTimer, balls,
    sceneMeshes, disposedTwice, spawned, tracked, audio, timers, destroyed, pair>>

\* App.fetchWeather() up to its await: nothing is sent for an empty location.
appFetchWeather(location) ==
  /\ app.pc = "idle"
  /\ UNCHANGED pitVars
  /\ UNCHANGED ticks
  /\ IF location = ""
     THEN /\ lastCall' = Call("fetchWeather", "no location", 0)
          /\ UNCHANGED app
     ELSE /\ Len(app.requests) < MaxRequests
          /\ lastCall' = Call("fetchWeather", "sent", 0)
          /\ app' = [app EXCEPT !.requests = Append(@, location)]

\* App.fetchWeather() after its await: the answer to request i has arrived, or
\* fetch() itself failed (reached = FALSE).
appFetchWeatherResume(i, upstream, reached) ==
  /\ app.pc = "idle"
  /\ i \in DOMAIN app.requests
  /\ UNCHANGED ticks
  /\ LET response == apiWeather(app.requests[i], upstream)
         rest == splice(app.requests, i)
     IN  IF reached /\ response.ok
         THEN /\ app' = [app EXCEPT !.requests = rest,
                                    !.currentWeatherData = response.body,
                                    !.startBtnDisabled = FALSE]
              /\ IF app.weatherPit /\ isRunning
                 THEN updateWeather(response.body[1])
                 ELSE /\ lastCall' = Call("fetchWeather", "loaded", 0)
                      /\ UNCHANGED pitVars
         ELSE /\ app' = catchFetchError([app EXCEPT !.requests = rest])
              /\ lastCall' = Call("fetchWeather", "error", 0)
              /\ UNCHANGED pitVars

\* App.startPit(), first part: the guard on currentWeatherData and, without a
\* pit, new WeatherPit(pitContainer, currentWeatherData).
appStartPit ==
  /\ app.pc = "idle"
  /\ ~app.startBtnDisabled
  /\ UNCHANGED ticks
  /\ IF app.currentWeatherData = <<>>
     THEN /\ lastCall' = Call("startPit", "no data", 0)
          /\ UNCHANGED pitVars
          /\ UNCHANGED app
     ELSE /\ lastCall' = Call("startPit", "", 0)
          /\ app' = [app EXCEPT !.weatherPit = TRUE, !.pc = "start"]
          /\ IF app.weatherPit
             THEN UNCHANGED pitVars
             ELSE /\ isRunning' = FALSE
                  /\ animationId' = 0
                  /\ weatherData' = app.currentWeatherData[1]
                  /\ spawnInterval' = calculateSpawnInterval(app.currentWeatherData[1])
                  /\ spawnTimer' = 0
                  /\ balls' = <<>>
                  /\ sceneMeshes' = 0
                  /\ audio' = newAudioEngine
                  /\ UNCHANGED <<frames, disposedTwice, spawned, tracked, timers,
                                 destroyed, pair>>

\* App.startPit(), second part: this.weatherPit.start().
appStartPitStart ==
  /\ app.pc = "start"
  /\ start(0)
  /\ app' = [app EXCEPT !.pc = "adsr"]
  /\ UNCHANGED ticks

\* App.startPit(), last part: updateADSR() from the slider positions, and the
\* buttons.
appStartPitADSR ==
  /\ app.pc = "adsr"
  /\ lastCall' = Call("setADSR", app.sliders, 0)
  /\ audio' = setADSR(audio, app.sliders)
  /\ app' = [app EXCEPT !.pc = "idle", !.startBtnDisabled = TRUE,
                        !.stopBtnDisabled = FALSE]
  /\ UNCHANGED <<isRunning, animationId, frames, weatherData, spawnInterval, spawnTimer,
                 balls, sceneMeshes, disposedTwice, spawned, tracked, timers, destroyed,
                 pair, ticks>>

\* App.stopPit()
appStopPit ==
  /\ app.pc = "idle"
  /\ ~app.stopBtnDisabled
  /\ app' = [app EXCEPT !.startBtnDisabled = FALSE, !.stopBtnDisabled = TRUE]
  /\ UNCHANGED ticks
  /\ IF app.weatherPit
     THEN stop
     ELSE /\ lastCall' = Call("stopPit", "no pit", 0)
          /\ UNCHANGED pitVars

\* An animation frame of the pit fires between two handlers of the App.
appFrame ==
  /\ app.pc = "idle"
  /\ ticks < MaxTicks
  /\ ticks' = ticks + 1
  /\ UNCHANGED app
  /\ \E id \in FrameIds : frame(id, DtTick, 0, FALSE)

NextApp ==
  \/ \E location \in AppLocations : appFetchWeather(location)
  \/ \E i \in 1..MaxRequests, upstream \in Upstreams, reached \in BOOLEAN :
       appFetchWeatherResume(i, upstream, reached)
  \/ appStartPit
  \/ appStartPitStart
  \/ appStartPitADSR
  \/ appStopPit
  \/ appFrame

SpecApp == InitApp /\ [][NextApp]_vars

\* ------------------------------------------------------------ getFrequency
\* this.scales: the pentatonic intervals in semitones.
scales ==
  [major |-> <<0, 2, 4, 7, 9>>, minor |-> <<0, 3, 5, 7, 10>>]

\* this.baseFreq = 130.81 (C3), in 1/100 Hz.
baseFreq == 13081

\* getFrequency with the octave left out.
getFrequencyOneOctave(noteIndex, isMajor) ==
  LET scale == IF isMajor THEN scales.major ELSE scales.minor
  IN  [base |-> baseFreq, semitones |-> scale[(noteIndex % 5) + 1]]

\* getFrequency(noteIndex, isMajor): the value baseFreq * 2^(totalSemitones/12),
\* kept exactly as its base and its count of semitones.
getFrequency(noteIndex, isMajor) ==
  LET scale == IF isMajor THEN scales.major ELSE scales.minor
      octave == noteIndex \div 5
      scalePosition == noteIndex % 5
      semitoneOffset == scale[scalePosition + 1]
      totalSemitones == (octave * 12) + semitoneOffset
  IN  [base |-> baseFreq, semitones |-> totalSemitones]

\* 2 * f, as 2 = 2^(12/12).
twice(f) == [f EXCEPT !.semitones = @ + 12]

\* f <= g, for two frequencies over one base.
notAbove(f, g) == f.base = g.base /\ f.semitones <= g.semitones

\* audioEngine.getFrequency(noteIndex, isMajor)
engineGetFrequency(noteIndex, isMajor) ==
  /\ lastCall' = Call("getFrequency",
                      [noteIndex |-> noteIndex, isMajor |-> isMajor,
                       frequency |-> getFrequency(noteIndex, isMajor)], 0)
  /\ UNCHANGED audio
  /\ PitAtRest

NextScale ==
  \/ \E ok \in BOOLEAN : engineInit(ok)
  \/ \E n \in ApiNotes : enginePlayNote(n)
  \/ engineStopAll
  \/ \E noteIndex \in Notes, isMajor \in BOOLEAN : engineGetFrequency(noteIndex, isMajor)

SpecScale == InitAudio /\ [][NextScale]_vars

\* ------------------------------------------------- handleCollision, exactly
\* Vectors are exact: integer components c over one positive denominator d;
\* scalars are fractions [n, d] with d > 0.
Vector3(x, y, z) == [c |-> <<x, y, z>>, d |-> 1]

Frac(n, d) == [n |-> n, d |-> d]

\* a.add(b) and subVectors(a, b)
addVectors(a, b) ==
  IF a.d = b.d
  THEN [c |-> [i \in 1..3 |-> a.c[i] + b.c[i]], d |-> a.d]
  ELSE [c |-> [i \in 1..3 |-> a.c[i] * b.d + b.c[i] * a.d], d |-> a.d * b.d]

subVectors(a, b) ==
  IF a.d = b.d
  THEN [c |-> [i \in 1..3 |-> a.c[i] - b.c[i]], d |-> a.d]
  ELSE [c |-> [i \in 1..3 |-> a.c[i] * b.d - b.c[i] * a.d], d |-> a.d * b.d]

\* a.multiplyScalar(r), with the sign kept in the numerators
multiplyScalar(a, r) ==
  IF r.d > 0
  THEN [c |-> [i \in 1..3 |-> a.c[i] * r.n], d |-> a.d * r.d]
  ELSE [c |-> [i \in 1..3 |-> 0 - a.c[i] * r.n], d |-> 0 - a.d * r.d]

\* a.dot(b)
dot(a, b) ==
  Frac(a.c[1] * b.c[1] + a.c[2] * b.c[2] + a.c[3] * b.c[3], a.d * b.d)

\* Math.sqrt on the perfect squares the pair's offsets produce
sqrt(n) == CHOOSE r \in 0..n : r * r = n

\* a.length(), for integer vectors of integer length
length(a) == Frac(sqrt(a.c[1] * a.c[1] + a.c[2] * a.c[2] + a.c[3] * a.c[3]), a.d)

\* a.normalize(): divideScalar(length() || 1)
normalize(a) ==
  LET l == length(a)
  IN  IF l.n = 0 THEN a ELSE multiplyScalar(a, Frac(l.d, l.n))

\* Exact comparison of two vectors.
sameVector(a, b) == \A i \in 1..3 : a.c[i] * b.d = b.c[i] * a.d

\* Math.abs(r)
abs(r) == Frac(IF r.n < 0 THEN 0 - r.n ELSE r.n, r.d)

\* Both notes handed to playNote at once, ball1's first.
collisionNotesSwapped(q, velocityAlongNormal) ==
  [played |-> <<[noteIndex |-> q.noteIndex1, velocity |-> abs(velocityAlongNormal),
                 duration |-> 30],
                [noteIndex |-> q.noteIndex2, velocity |-> abs(velocityAlongNormal),
                 duration |-> 30]>>,
   timeouts |-> <<>>]

\* handleCollision(ball1, ball2), lines 271-278: playNote(ball2.noteIndex, ...,
\* collisionVelocity, 0.3) is called, and setTimeout(..., 20) is handed the call
\* playNote(ball1.noteIndex, ..., collisionVelocity * 0.8, 0.3).  Durations in
\* hundredths of a second, the delay in ms.
collisionNotes(q, velocityAlongNormal) ==
  LET collisionVelocity == abs(velocityAlongNormal)
  IN  [played |-> <<[noteIndex |-> q.noteIndex2, velocity |-> collisionVelocity,
                     duration |-> 30]>>,
       timeouts |-> <<[delay |-> 20,
                       call |-> [noteIndex |-> q.noteIndex1,
                                 velocity |-> Frac(collisionVelocity.n * 8,
                                                   collisionVelocity.d * 10),
                                 duration |-> 30]]>>]

\* handleCollision(ball1, ball2), lines 237-269.  normal.multiplyScalar() changes
\* normal in place and returns it: impulseVector is that same object, and
\* separation is impulseVector scaled once more by overlap.
handleCollision(q) ==
  LET normal == normalize(subVectors(q.position2, q.position1))
      relativeVelocity == subVectors(q.velocity1, q.velocity2)
      velocityAlongNormal == dot(relativeVelocity, normal)
      impulse == Frac(0 - 18 * velocityAlongNormal.n, 10 * velocityAlongNormal.d)
      totalMass == q.mass1 + q.mass2
      impulseScalar == Frac(impulse.n, impulse.d * totalMass)
      impulseVector == multiplyScalar(normal, impulseScalar)
      overlap == Frac(q.size1 + q.size2
                        - length(subVectors(q.position1, q.position2)).n, 2)
      separation == multiplyScalar(impulseVector, overlap)
  IN  IF velocityAlongNormal.n > 0 THEN [q EXCEPT !.resolved = FALSE]
      ELSE [q EXCEPT
              !.resolved = TRUE,
              !.velocity1 = addVectors(q.velocity1,
                                       multiplyScalar(impulseVector, Frac(q.mass2, 1))),
              !.velocity2 = subVectors(q.velocity2,
                                       multiplyScalar(impulseVector, Frac(q.mass1, 1))),
              !.position1 = subVectors(q.position1, separation),
              !.position2 = addVectors(q.position2, separation),
              !.played = collisionNotes(q, velocityAlongNormal).played,
              !.timeouts = collisionNotes(q, velocityAlongNormal).timeouts]

\* checkCollisions(): the test that hands a pair to handleCollision.
overlapping(q) ==
  length(subVectors(q.position1, q.position2)).n < q.size1 + q.size2

\* The pairs: ball1 at the origin of the frame, ball2 at an offset of integer
\* length, each ball of size BallSize (one profile gives every ball one size).
BallSize == 3

Offsets ==
  {<<0, 0, 0>>, <<1, 0, 0>>, <<0, -2, 0>>, <<3, 4, 0>>, <<-2, 1, 2>>, <<0, 0, -4>>}

Speeds == {0 - MaxSpeed, 0, MaxSpeed}

Velocities == {Vector3(x, y, z) : x \in Speeds, y \in Speeds, z \in Speeds}

Pair(o, v1, v2, m1, m2) ==
  [position1 |-> Vector3(0, 0, 0), position2 |-> Vector3(o[1], o[2], o[3]),
   velocity1 |-> v1, velocity2 |-> v2, size1 |-> BallSize, size2 |-> BallSize,
   mass1 |-> m1, mass2 |-> m2, noteIndex1 |-> 3, noteIndex2 |-> 17,
   resolved |-> FALSE, played |-> <<>>, timeouts |-> <<>>]

\* The pit at rest, with a pair that checkCollisions found overlapping.
InitCollide ==
  /\ isRunning = FALSE
  /\ animationId = 0
  /\ frames = {}
  /\ weatherData = getMockWeatherData("Dubai")
  /\ spawnInterval = calculateSpawnInterval(weatherData)
  /\ spawnTimer = 0
  /\ balls = <<>>
  /\ sceneMeshes = 0
  /\ disposedTwice = FALSE
  /\ spawned = <<>>
  /\ tracked = 0
  /\ audio = newAudioEngine
  /\ timers = <<>>
  /\ lastCall = Call("new", "", 0)
  /\ destroyed = FALSE
  /\ ticks = 0
  /\ app = noApp
  /\ \E o \in Offsets, v1 \in Velocities, v2 \in Velocities,
        m1 \in 1..MaxMass, m2 \in 1..MaxMass :
       /\ overlapping(Pair(o, v1, v2, m1, m2))
       /\ pair = [before |-> Pair(o, v1, v2, m1, m2),
                  after |-> Pair(o, v1, v2, m1, m2), done |-> FALSE]

\* checkCollisions() calls handleCollision on the pair.
collide ==
  /\ ~pair.done
  /\ pair' = [pair EXCEPT !.after = handleCollision(pair.before), !.done = TRUE]
  /\ lastCall' = Call("handleCollision", "", 0)
  /\ UNCHANGED <<isRunning, animationId, frames, weatherData, spawnInterval, spawnTimer,
                 balls, sceneMeshes, disposedTwice, spawned, tracked, audio, timers, destroyed,
                 ticks, app>>

\* The 20 ms timeout of handleCollision expires: the host runs its callback, as
\* a task of its own after the one that set it.
collisionTimeout ==
  /\ pair.done
  /\ pair.after.timeouts # <<>>
  /\ pair' = [pair EXCEPT !.after.played = Append(@, Head(pair.after.timeouts).call),
                          !.after.timeouts = Tail(@)]
  /\ lastCall' = Call("timer", "", 0)
  /\ UNCHANGED <<isRunning, animationId, frames, weatherData, spawnInterval, spawnTimer,
                 balls, sceneMeshes, disposedTwice, spawned, tracked, audio, timers, destroyed,
                 ticks, app>>

NextCollide == collide \/ collisionTimeout

SpecCollide == InitCollide /\ [][NextCollide]_vars

\* ------------------------------------------- boundary checks within a tick
\* pitBounds of the constructor (lines 19-23), in tenths of a unit, the unit of
\* BallSize.
pitBounds == [width |-> 1200, height |-> 800, depth |-> 1200]

\* a.setComponent(k, x), x an integer
setComponent(a, k, x) ==
  [c |-> <<IF k = 1 THEN x * a.d ELSE a.c[1],
           IF k = 2 THEN x * a.d ELSE a.c[2],
           IF k = 3 THEN x * a.d ELSE a.c[3]>>,
   d |-> a.d]

\* velocity.k *= -restitution, restitution = 0.8 = 4/5; the denominator is
\* kept where the component is a multiple of 5.
reflect(a, k) ==
  IF a.c[k] % 5 = 0
  THEN [c |-> <<IF k = 1 THEN 0 - 4 * (a.c[1] \div 5) ELSE a.c[1],
                IF k = 2 THEN 0 - 4 * (a.c[2] \div 5) ELSE a.c[2],
                IF k = 3 THEN 0 - 4 * (a.c[3] \div 5) ELSE a.c[3]>>,
        d |-> a.d]
  ELSE [c |-> <<IF k = 1 THEN 0 - 4 * a.c[1] ELSE 5 * a.c[1],
                IF k = 2 THEN 0 - 4 * a.c[2] ELSE 5 * a.c[2],
                IF k = 3 THEN 0 - 4 * a.c[3] ELSE 5 * a.c[3]>>,
        d |-> 5 * a.d]

\* The note of a ground bounce as playNote receives it: duration 0.2 s in
\* hundredths.
bounceNote(b, bounceVelocity) ==
  [noteIndex |-> b.noteIndex, isMajor |-> b.isMajorScale,
   velocity |-> bounceVelocity, duration |-> 20]

\* The floor branch of checkBoundaries() sounding on every contact.
checkFloorAnyDirection(b) ==
  LET isOnGround == b.position.c[2] - b.size * b.position.d < 0
      bounceVelocity == abs(Frac(b.velocity.c[2], b.velocity.d))
  IN  IF isOnGround
      THEN [b EXCEPT !.position = setComponent(b.position, 2, b.size),
                     !.velocity = reflect(b.velocity, 2),
                     !.notes = IF b.audioEngine /\ bounceVelocity.n * 10 > bounceVelocity.d
                               THEN Append(b.notes, bounceNote(b, bounceVelocity))
                               ELSE b.notes]
      ELSE b

\* checkBoundaries(), the floor (lines 481-500): position.y - size < 0 puts the
\* ball on the floor and reflects velocity.y; the note is played if the ball
\* was moving down, has an audio engine and bounceVelocity > 0.1.
checkFloor(b) ==
  LET isOnGround == b.position.c[2] - b.size * b.position.d < 0
      wasMovingDown == b.velocity.c[2] < 0
      bounceVelocity == abs(Frac(b.velocity.c[2], b.velocity.d))
  IN  IF isOnGround
      THEN [b EXCEPT !.position = setComponent(b.position, 2, b.size),
                     !.velocity = reflect(b.velocity, 2),
                     !.notes = IF wasMovingDown /\ b.audioEngine
                                  /\ bounceVelocity.n * 10 > bounceVelocity.d
                               THEN Append(b.notes, bounceNote(b, bounceVelocity))
                               ELSE b.notes]
      ELSE b

\* checkBoundaries(), the walls of one axis (lines 503-510 for x, 512-519 for
\* z): first the wall at -half, then the wall at +half.
checkWalls(b, k, half) ==
  LET d == b.position.d
      low == b.position.c[k] - b.size * d < 0 - half * d
      atLow == IF low THEN (b.size - half) * d ELSE b.position.c[k]
      high == atLow + b.size * d > half * d
  IN  IF low /\ high
      THEN [b EXCEPT !.position = setComponent(b.position, k, half - b.size),
                     !.velocity = reflect(reflect(b.velocity, k), k)]
      ELSE IF low
      THEN [b EXCEPT !.position = setComponent(b.position, k, b.size - half),
                     !.velocity = reflect(b.velocity, k)]
      ELSE IF high
      THEN [b EXCEPT !.position = setComponent(b.position, k, half - b.size),
                     !.velocity = reflect(b.velocity, k)]
      ELSE b

\* checkBoundaries(): the floor, then the walls in x, then the walls in z.
checkBoundaries(b) ==
  checkWalls(checkWalls(checkFloor(b), 1, pitBounds.width \div 2),
             3, pitBounds.depth \div 2)

\* Ball k of a pair as checkBoundaries() sees it.  The pit hands its audio
\* engine to every ball it constructs (line 210).
ballOf(q, k) ==
  [position |-> IF k = 1 THEN q.position1 ELSE q.position2,
   velocity |-> IF k = 1 THEN q.velocity1 ELSE q.velocity2,
   size |-> IF k = 1 THEN q.size1 ELSE q.size2,
   noteIndex |-> IF k = 1 THEN q.noteIndex1 ELSE q.noteIndex2,
   isMajorScale |-> q.isMajorScale, audioEngine |-> TRUE, notes |-> <<>>]

\* update(), lines 294-304 on two live balls: balls[1].update() then
\* balls[0].update(), from the call of checkBoundaries() on.
boundaryPass(q) ==
  LET b2 == checkBoundaries(ballOf(q, 2))
      b1 == checkBoundaries(ballOf(q, 1))
  IN  [q EXCEPT !.position1 = b1.position, !.velocity1 = b1.velocity,
                !.position2 = b2.position, !.velocity2 = b2.velocity,
                !.bounced = b2.notes \o b1.notes]

\* checkCollisions() on two balls, lines 218-232.
checkCollisions(q) == IF overlapping(q) THEN handleCollision(q) ELSE q

\* The inputs: ball1 as its move left it, at or beyond the floor, the wall at
\* -x and the wall at +z or clear of them, ball2 at an offset from it; velocity
\* components in fiftieths: -0.2, -0.1, 0 and 0.2 along y.
FloorHeights == {BallSize - 1, BallSize, BallSize + 4}

WallSides == {BallSize - 1 - pitBounds.width \div 2, 0}

WallFronts == {0, pitBounds.depth \div 2 - BallSize + 1}

BoundaryVelocities ==
  {[c |-> <<0, y, 0>>, d |-> 50] : y \in {0 - 10, 0 - 5, 0, 10}}

PitPair(x, y, z, o, v1, v2, m1, m2, major) ==
  [position1 |-> Vector3(x, y, z),
   position2 |-> Vector3(x + o[1], y + o[2], z + o[3]),
   velocity1 |-> v1, velocity2 |-> v2, size1 |-> BallSize, size2 |-> BallSize,
   mass1 |-> m1, mass2 |-> m2, noteIndex1 |-> 3, noteIndex2 |-> 17,
   isMajorScale |-> major, bounced |-> <<>>,
   resolved |-> FALSE, played |-> <<>>, timeouts |-> <<>>]

\* The distance of the two balls after their boundary checks is an integer.
integerDistance(q) ==
  \E p \in {boundaryPass(q)} :
    \E n \in 0..(4 * BallSize) :
      n * n = dot(subVectors(p.position1, p.position2),
                  subVectors(p.position1, p.position2)).n

\* The Running pit with two live balls in a tick, moved and about to be checked
\* against the pit's boundaries.
InitBounds ==
  /\ isRunning = TRUE
  /\ animationId = 1
  /\ frames = {1}
  /\ weatherData \in Profiles
  /\ spawnInterval = calculateSpawnInterval(weatherData)
  /\ spawnTimer = 0
  /\ balls = <<>>
  /\ sceneMeshes = 0
  /\ disposedTwice = FALSE
  /\ spawned = <<>>
  /\ tracked = 0
  /\ audio = audioInit(newAudioEngine, TRUE)
  /\ timers = <<>>
  /\ lastCall = Call("frame", "update", 0)
  /\ destroyed = FALSE
  /\ ticks = 0
  /\ app = noApp
  /\ \E x \in WallSides, y \in FloorHeights, z \in WallFronts, o \in Offsets,
        v1 \in BoundaryVelocities, v2 \in BoundaryVelocities,
        m1 \in 1..MaxMass, m2 \in 1..MaxMass :
       /\ integerDistance(PitPair(x, y, z, o, v1, v2, m1, m2, weatherData.isMajorScale))
       /\ pair = [before |-> PitPair(x, y, z, o, v1, v2, m1, m2, weatherData.isMajorScale),
                  after |-> PitPair(x, y, z, o, v1, v2, m1, m2, weatherData.isMajorScale),
                  done |-> FALSE]

\* update(), lines 294-307: the boundary checks of both balls, then
\* checkCollisions().
updatePair ==
  /\ ~pair.done
  /\ \E q \in {boundaryPass(pair.before)} :
       pair' = [pair EXCEPT !.after = checkCollisions(q), !.done = TRUE]
  /\ lastCall' = Call("update", "", 0)
  /\ UNCHANGED <<isRunning, animationId, frames, weatherData, spawnInterval, spawnTimer,
                 balls, sceneMeshes, disposedTwice, spawned, tracked, audio, timers, destroyed,
                 ticks, app>>

NextBounds == updatePair \/ collisionTimeout

SpecBounds == InitBounds /\ [][NextBounds]_vars

\* ------------------------------------------------------------- properties
\* C1: in every reachable state of the pit the collection holds at most
\* maxBalls = 50 particles.  (SpecPop)
C1_PopulationBound == Len(balls) <= maxBalls

\* The collection is full.
C1_Full == Len(balls) = maxBalls

\* C5, as stated: every spawn event adds a number of particles within [3,7],
\* for every profile and every population.  (SpecPop)
C5_BatchInRange == spawned # <<>> => spawned[1].added \in 3..7

\* C5, amended: calculateBallsPerSpawn() is within [3,7] and a spawn event adds
\* that many particles, cut short by the room left under maxBalls:
\* min(ballsPerSpawn, maxBalls - population).  (SpecPop)
C5_BatchUpToCap ==
  spawned # <<>> =>
    /\ spawned[1].perSpawn \in 3..7
    /\ spawned[1].added = Min(spawned[1].perSpawn, maxBalls - spawned[1].before)
    /\ spawned[1].before + spawned[1].perSpawn <= maxBalls => spawned[1].added \in 3..7

\* A spawn event at a population where the cap cuts the batch short.
C5_CutShort ==
  /\ spawned # <<>>
  /\ spawned[1].before + spawned[1].perSpawn > maxBalls
  /\ spawned[1].added < 3

\* C6: the run state is a two-state machine: start() leads to Running and
\* changes nothing when already Running, stop() leads to Stopped from either
\* state, and updateWeather(), ticks and the host's other callbacks never change
\* the run state.  (Spec)
C6_RunStateMachine ==
  [][/\ lastCall'.op = "start" => isRunning'
     /\ (lastCall'.op = "start" /\ isRunning) =>
          UNCHANGED <<isRunning, animationId, frames, weatherData, spawnInterval,
                      spawnTimer, balls, sceneMeshes, disposedTwice, spawned, tracked, audio,
                      timers>>
     /\ lastCall'.op = "stop" => ~isRunning'
     /\ lastCall'.op \in {"updateWeather", "frame", "timer", "onended"} =>
          isRunning' = isRunning]_vars

\* updateWeather() was accepted while Running, with particles in the collection.
C6_UpdateWhileRunning ==
  lastCall.op = "updateWeather" /\ lastCall.had > 0 /\ isRunning

\* C7: updateWeather(profile), in either run state and with any population,
\* leaves zero particles, spawnTimer = 0, the given profile active,
\* spawnInterval recomputed from it, and no ball mesh in the scene.  (SpecFine)
C7_UpdateWeatherClears ==
  lastCall.op = "updateWeather" =>
    /\ balls = <<>>
    /\ spawnTimer = 0
    /\ weatherData = getMockWeatherData(lastCall.arg)
    /\ spawnInterval = calculateSpawnInterval(weatherData)
    /\ sceneMeshes = 0

\* updateWeather() with another profile has just cleared a populated, running pit.
C7_ClearedMidRun ==
  /\ lastCall.op = "updateWeather" /\ lastCall.had > 0 /\ isRunning
  /\ spawned # <<>> /\ spawned[1].perSpawn # calculateBallsPerSpawn(weatherData)

\* C8: while Running exactly one animation frame is pending, the one animationId
\* names; while Stopped none is pending, so no tick runs update() until the next
\* start(); and update() only ever runs while Running.  (SpecPop)
C8_OneTickChain ==
  /\ isRunning => frames = {animationId}
  /\ ~isRunning => frames = {}
  /\ (lastCall.op = "frame" /\ lastCall.arg = "update") => isRunning

\* stop() has cancelled the pending frame of a pit that ticks had populated.
C8_StoppedAfterTick ==
  lastCall.op = "stop" /\ balls # <<>> /\ animationId # 0 /\ frames = {}

\* C3, as stated: while the pit stays Stopped no playNote call starts a voice;
\* in particular the deferred second note of a collision does not sound after
\* stop().  (Spec)
C3_NoNoteWhileStopped ==
  [][(~isRunning /\ ~isRunning') =>
       {v.id : v \in audio'.voices} \subseteq {v.id : v \in audio.voices}]_vars

\* C10, as stated: a particle's mesh is held exactly while the particle is in the
\* collection: every ball in the collection has its mesh, every mesh in the
\* scene belongs to a ball in the collection, and no mesh is released twice.
\* (SpecPop)
C10_MeshHeldWhileInCollection ==
  /\ \A i \in DOMAIN balls : balls[i].disposed = 0
  /\ sceneMeshes = Len(balls)
  /\ ~disposedTwice

\* ---- the engine driven directly (SpecAudio)
\* Voices of note n that sound and have no termination scheduled.
Sounding(A, n) == {v \in A.voices : v.note = n /\ ~v.stopped}

\* C2, as stated: a new note first terminates the prior voice of its index, so
\* at most one voice per index sounds without its termination scheduled, and
\* the map holds at most one voice per index.  (SpecAudio)
C2_OneVoicePerIndex ==
  \A n \in Notes :
    /\ Cardinality(Sounding(audio, n)) <= 1
    /\ Cardinality({e \in audio.activeNotes : e.note = n}) <= 1

\* C9, as stated: right after stopAll() every voice that still sounds has its
\* termination scheduled and the map is empty.  (SpecAudio)
C9_StopAllStopsAll ==
  lastCall.op = "stopAll" =>
    /\ audio.activeNotes = {}
    /\ \A v \in audio.voices : v.stopped

\* The voice registered at note n has its release scheduled in engine B and
\* still sounds there.
Releasing(A, B, n) ==
  \E v \in B.voices : v.id = mapGet(A.activeNotes, n) /\ v.note = n /\ v.stopped

\* C11, as stated: stopNote(n) on an occupied slot schedules the voice's release
\* and the slot stays occupied until that release has completed; on an empty
\* slot it changes nothing.  (SpecAudio)
C11_SlotHeldThroughRelease ==
  [][\A n \in ApiNotes :
       lastCall' = Call("stopNote", ToString(n), 0) =>
         IF mapHas(audio.activeNotes, n)
         THEN Releasing(audio, audio', n) /\ mapHas(audio'.activeNotes, n)
         ELSE audio' = audio]_vars

\* C11, amended: stopNote(n) on an occupied slot schedules the voice's release
\* and frees the slot in the same call, while the voice goes on sounding through
\* its release; on an empty slot it changes nothing.  (SpecAudio)
C11_SlotFreedAtOnce ==
  [][\A n \in ApiNotes :
       lastCall' = Call("stopNote", ToString(n), 0) =>
         IF mapHas(audio.activeNotes, n)
         THEN /\ Releasing(audio, audio', n)
              /\ ~mapHas(audio'.activeNotes, n)
              /\ audio'.activeNotes = mapDelete(audio.activeNotes, n)
              /\ {v.id : v \in audio'.voices} = {v.id : v \in audio.voices}
         ELSE audio' = audio]_vars

\* stopNote() has just freed the slot of a voice that is still in its release.
C11_ReleasingWithoutSlot ==
  /\ lastCall.op = "stopNote"
  /\ \E v \in audio.voices :
       v.stopped /\ ToString(v.note) = lastCall.arg /\ ~mapHas(audio.activeNotes, v.note)

\* C12: every voice that playNote started eventually retires; when its
\* completion callback runs the slot of its index is free; and once note
\* triggers cease the map eventually is and stays empty.  (SpecAudioLive)
C12_VoicesRetire ==
  /\ \A id \in VoiceIds :
       (id \in {v.id : v \in audio.voices}) ~> (id \notin {v.id : v \in audio.voices})
  /\ [][\A n \in ApiNotes :
          lastCall' = Call("onended", ToString(n), 0) => ~mapHas(audio'.activeNotes, n)]_vars
  /\ <>[][lastCall'.op # "playNote"]_vars => <>[](audio.activeNotes = {})

\* The last voice has retired and left the map empty.
C12_AllRetired ==
  /\ lastCall.op = "onended"
  /\ audio.isInitialized /\ audio.voices = {} /\ audio.activeNotes = {}

\* ---- the pit with contacts (Spec)
\* C13: while the engine is not initialised, the playNote calls of a tick (floor
\* bounce, pair collision) and of the deferred collision callback create no
\* voice and leave the map unchanged, and the tick still updates and prunes its
\* particles and runs its collision pass as it would without sound.  (Spec)
C13_SilentBeforeInit ==
  [][(~audio.isInitialized /\ lastCall'.op \in {"frame", "timer"}) =>
       /\ audio' = audio
       /\ audio.voices = {} /\ audio.activeNotes = {}
       /\ lastCall'.op = "frame" =>
            \E dt \in DeltaTimes :
              /\ balls' = updateBalls(updateSpawn(Pit, dt), dt, <<>>).balls
              /\ spawnTimer' = updateSpawn(Pit, dt).spawnTimer
       /\ lastCall'.op = "timer" => timers' = Tail(timers)]_vars

\* A tick of an uninitialised engine has resolved a collision and scheduled the
\* deferred note.
C13_SilentCollision ==
  /\ ~audio.isInitialized /\ lastCall.op = "frame"
  /\ balls # <<>> /\ timers # <<>>

\* ---- the envelope (SpecADSR)
\* C14: setADSR stores each provided field clamped (attack, decay, release to
\* >= 0, sustain to [0,1]) and leaves every other field unchanged, so the
\* stored envelope always has attack, decay, release >= 0 and sustain in [0,1],
\* and getADSR() returns what was stored.  (SpecADSR)
C14_MergeAndClamp ==
  /\ [](/\ getADSR(audio).attack >= 0 /\ getADSR(audio).decay >= 0
        /\ getADSR(audio).release >= 0
        /\ getADSR(audio).sustain >= 0 /\ getADSR(audio).sustain <= 100)
  /\ [][lastCall'.op = "setADSR" =>
          LET given == lastCall'.arg
              old == getADSR(audio)
              new == getADSR(audio')
          IN  /\ \A f \in {"attack", "decay", "release"} :
                   new[f] = IF given[f] = <<>> THEN old[f]
                            ELSE IF given[f][1] < 0 THEN 0 ELSE given[f][1]
              /\ new.sustain = IF given.sustain = <<>> THEN old.sustain
                               ELSE IF given.sustain[1] < 0 THEN 0
                               ELSE IF given.sustain[1] > 100 THEN 100
                               ELSE given.sustain[1]]_vars

\* setADSR({attack: AdsrStep}) on the initial envelope: attack stored, the
\* rest as before.
C14_AttackOnly ==
  /\ lastCall.op = "setADSR"
  /\ lastCall.arg = [attack |-> <<AdsrStep>>, decay |-> <<>>, sustain |-> <<>>,
                     release |-> <<>>]
  /\ getADSR(audio) = [attack |-> AdsrStep, decay |-> 10, sustain |-> 70, release |-> 80]

\* ---- particle lifetimes (SpecFine)
\* C15: a particle's life is 1 at creation, and every update(dt) with dt >= 0
\* leaves it within [0,1] and no greater than before: it is clamped to exactly
\* 0, never negative.  (SpecFine)
C15_LifeClamped ==
  /\ \A n \in Notes : WeatherBall(weatherData, n).life = LifeOne
  /\ \A i \in DOMAIN balls :
       /\ balls[i].life >= 0 /\ balls[i].life <= LifeOne
       /\ \A dt \in DeltaTimesFine \cup {0} :
            /\ ballUpdate(balls[i], dt).life >= 0
            /\ ballUpdate(balls[i], dt).life <= balls[i].life
            /\ balls[i].life - balls[i].decayRate * dt <= 0 =>
                 ballUpdate(balls[i], dt).life = 0

\* A partly decayed particle whose next update would take its life below 0.
C15_ClampedAtZero ==
  \E i \in DOMAIN balls :
    /\ balls[i].life < LifeOne
    /\ balls[i].life - balls[i].decayRate * DtLong < 0
    /\ ballUpdate(balls[i], DtLong).life = 0

\* ---- particle lifetimes under continued ticking (SpecLife)
\* C16: while the pit keeps ticking with positive delta times and gets no new
\* profile, every spawned particle eventually is out of the collection, and no
\* particle is in the collection with life = 0 at the end of a tick: it is
\* removed in the tick in which its life reaches 0.  (SpecLife)
C16_EveryParticleDies ==
  /\ [](\A i \in DOMAIN balls : balls[i].life > 0)
  /\ [](tracked <= Len(balls))
  /\ (tracked # 0) ~> (tracked = 0)

\* A followed particle has just been removed, with younger particles still alive.
C16_FollowedRemoved ==
  /\ tracked = 0 /\ balls # <<>> /\ spawned # <<>>
  /\ Len(balls) < spawned[1].before + spawned[1].added

\* ---- handleCollision (SpecCollide)
\* The rate at which the centre distance of the pair grows, up to a positive
\* factor: (velocity2 - velocity1) . (position2 - position1) of the pair as it
\* was handed over; negative = the balls approach each other.
closing(q, v1, v2) ==
  dot(subVectors(v2, v1), subVectors(q.position2, q.position1)).n

\* C4, as stated: an overlapping pair that approaches each other before
\* handleCollision is separating or at relative rest along the collision normal
\* after it, and a pair that already moves apart keeps its velocities.
\* (SpecCollide)
C4_ApproachingPairSeparates ==
  pair.done =>
    LET q == pair.before
        r == pair.after
    IN  /\ closing(q, q.velocity1, q.velocity2) < 0 =>
             closing(q, r.velocity1, r.velocity2) >= 0
        /\ closing(q, q.velocity1, q.velocity2) > 0 =>
             /\ sameVector(r.velocity1, q.velocity1)
             /\ sameVector(r.velocity2, q.velocity2)

\* Two fractions are the same number.
sameNumber(a, b) == a.n * b.d = b.n * a.d

\* velocityAlongNormal of a pair, from the state before the call.
alongNormal(q) ==
  dot(subVectors(q.velocity1, q.velocity2),
      normalize(subVectors(q.position2, q.position1)))

SnowProfile(wd) ==
  /\ wd.temp = 28 /\ wd.humidity = 85 /\ wd.cloudCover = 95
  /\ wd.condition = "Snow" /\ wd.precipitation = 20 /\ wd.precipitationType = "snow"

\* A tick has just spawned from the pit's profile, and its balls are in the collection.
SpawnedNow == lastCall.op = "frame" /\ lastCall.arg = "update" /\ spawned # <<>> /\ balls # <<>>

\* C18, as stated: with the profile {temp 28, humidity 85, cloudCover 95, Snow,
\* precipitation 0.2, snow} the scale is minor, the gravity multiplier is 0.5,
\* a spawn is of 3 balls and a ball's decay rate is 0.003.  (SpecService)
C18_SnowProfileThree ==
  SnowProfile(weatherData) =>
    /\ ~weatherData.isMajorScale
    /\ gravityMultiplier(weatherData) = 5
    /\ calculateBallsPerSpawn(weatherData) = 3
    /\ SpawnedNow => spawned[1].perSpawn = 3
    /\ SpawnedNow => \A i \in DOMAIN balls : balls[i].decayRate = 30

\* C18, amended: the same, with a spawn of 6 balls (3 + floor(min(2, 3)) +
\* floor(95 / 60)).  (SpecService)
C18_SnowProfileSix ==
  SnowProfile(weatherData) =>
    /\ ~weatherData.isMajorScale
    /\ gravityMultiplier(weatherData) = 5
    /\ calculateBallsPerSpawn(weatherData) = 6
    /\ SpawnedNow => spawned[1].perSpawn = 6 /\ spawned[1].added = 6
    /\ SpawnedNow => \A i \in DOMAIN balls : balls[i].decayRate = 30

\* The pit has spawned from the scenario's profile.
C18_SnowSpawned == SnowProfile(weatherData) /\ SpawnedNow

\* C19: every profile the pit holds, built by processWeatherData or by
\* getMockWeatherData, has isMajorScale exactly when its condition is Clear or
\* Clouds and (its temp is above 59 or its cloudCover is below 50).  (SpecService)
C19_ScaleFromThreeFields ==
  weatherData.isMajorScale <=>
    /\ weatherData.condition \in {"Clear", "Clouds"}
    /\ weatherData.temp > 59 \/ weatherData.cloudCover < 50

\* A processed profile that is major although it is not warm, handed to the
\* running pit.
C19_CoolButClear ==
  /\ lastCall.op = "updateWeather" /\ weatherData.location = "Unknown"
  /\ weatherData.isMajorScale /\ weatherData.temp <= 59

\* C20: for every noteIndex in 0..24 and both modes getFrequency returns
\* baseFreq * 2^(s/12) with s = 12 * floor(noteIndex / 5) + scale[noteIndex mod 5],
\* major offsets 0,2,4,7,9 and minor offsets 0,3,5,7,10; the next note of the
\* same octave is not lower, and the note five indices up is exactly twice as
\* high.  (SpecScale)
C20_PentatonicSemitones ==
  lastCall.op = "getFrequency" =>
    LET n == lastCall.arg.noteIndex
        m == lastCall.arg.isMajor
        f == lastCall.arg.frequency
        offsets == IF m THEN <<0, 2, 4, 7, 9>> ELSE <<0, 3, 5, 7, 10>>
    IN  /\ f.base = 13081
        /\ f.semitones = 12 * (n \div 5) + offsets[(n % 5) + 1]
        /\ (n % 5 < 4) => notAbove(f, getFrequency(n + 1, m))
        /\ (n + 5 <= 24) => getFrequency(n + 5, m) = twice(f)

\* The frequency of a note of the third octave in the minor scale was asked for.
C20_MinorThirdOctave ==
  /\ lastCall.op = "getFrequency"
  /\ ~lastCall.arg.isMajor /\ lastCall.arg.noteIndex = 13
  /\ lastCall.arg.frequency.semitones = 31

\* A failed fetch has just been handled by the client.
FetchFailed == lastCall.op = "fetchWeather" /\ lastCall.arg = "error"

\* C21: the step in which the client handles a failed fetch (an error answer of
\* the route or no answer at all) leaves currentWeatherData, the pit's run
\* state, profile, particles and spawn timer as they were, and calls no
\* updateWeather; an empty location sends nothing and changes nothing.  (SpecApp)
C21_FailedFetchChangesNothing ==
  [][(lastCall'.op = "fetchWeather" /\ lastCall'.arg \in {"error", "no location"}) =>
       /\ app'.currentWeatherData = app.currentWeatherData
       /\ app'.weatherPit = app.weatherPit
       /\ UNCHANGED <<isRunning, weatherData, spawnInterval, balls, spawnTimer>>]_vars

\* A fetch failed while the pit ran with particles in it.
C21_FailedWhileRunning ==
  /\ FetchFailed /\ app.weatherPit /\ isRunning /\ balls # <<>>
  /\ app.currentWeatherData # <<>>

\* A tick has just spawned and removed nothing: the new balls sit at the end
\* of the collection, in the order of their creation.
SpawnedAndKept ==
  /\ lastCall.op = "frame" /\ lastCall.arg = "update" /\ spawned # <<>>
  /\ spawned[1].added > 0
  /\ Len(balls) = spawned[1].before + spawned[1].added

\* C22: every ball in the collection has a noteIndex in 0..24; a ball just
\* created has the size of the collection at its creation, mod 25; and the
\* ball an observer follows through the collection has the same noteIndex after
\* every step it survives.  (SpecLife)
C22_NoteIndexFromPopulation ==
  /\ [](\A i \in DOMAIN balls : balls[i].noteIndex \in 0..24)
  /\ [](SpawnedAndKept =>
          \A j \in 1..spawned[1].added :
            balls[spawned[1].before + j].noteIndex = (spawned[1].before + j - 1) % 25)
  /\ [][(tracked # 0 /\ tracked' # 0) =>
          balls'[tracked'].noteIndex = balls[tracked].noteIndex]_vars

\* Balls were just created past the 25th place: their note indices wrapped.
C22_Wrapped ==
  /\ SpawnedAndKept
  /\ spawned[1].before >= 25
  /\ balls[Len(balls)].noteIndex = Len(balls) - 26
  /\ tracked # 0 /\ tracked < balls[tracked].noteIndex

\* The square of the distance between the centres, as a fraction.
distanceSq(p1, p2) == dot(subVectors(p1, p2), subVectors(p1, p2))

\* C23, as stated: after handleCollision resolved an overlapping pair, ball1
\* has moved by half the overlap against the unit normal and ball2 by half the
\* overlap along it, and the distance of the centres is size1 + size2.
\* (SpecCollide)
C23_SeparatedByOverlap ==
  (pair.done /\ pair.after.resolved) =>
    LET q == pair.before
        r == pair.after
        normal == normalize(subVectors(q.position2, q.position1))
        half == Frac(q.size1 + q.size2 - length(subVectors(q.position1, q.position2)).n, 2)
        total == q.size1 + q.size2
    IN  /\ sameVector(r.position1, subVectors(q.position1, multiplyScalar(normal, half)))
        /\ sameVector(r.position2, addVectors(q.position2, multiplyScalar(normal, half)))
        /\ distanceSq(r.position1, r.position2).n
             = total * total * distanceSq(r.position1, r.position2).d

\* C24, as stated: a voice that sounds and was not stopped by stopNote is the
\* one registered at its index, and the completion callback of a voice removes
\* no entry that holds another voice.  (SpecAudio)
C24_EndedVoiceFreesOwnSlot ==
  /\ [](\A v \in audio.voices :
          ~v.stopped => [note |-> v.note, id |-> v.id] \in audio.activeNotes)
  /\ [][lastCall'.op = "onended" =>
          \A e \in audio.activeNotes :
            e.id \in {v.id : v \in audio'.voices} => e \in audio'.activeNotes]_vars

\* C25, as stated: whenever the pit of the App runs, its weatherData is the
\* profile of the last successful fetch, currentWeatherData.  (SpecApp)
C25_RunsOnLatestProfile ==
  (app.weatherPit /\ isRunning) => app.currentWeatherData = <<weatherData>>

\* C26: at the end of a tick every ball of the collection, the ones spawned in
\* the tick included, has been updated exactly once in it and has life > 0,
\* and the scene holds the meshes of exactly these balls: the dead were
\* released and removed.  (SpecPop)
C26_EachUpdatedOnce ==
  (lastCall.op = "frame" /\ lastCall.arg = "update") =>
    /\ \A i \in DOMAIN balls :
         balls[i].updates = 1 /\ balls[i].life > 0 /\ balls[i].disposed = 0
    /\ sceneMeshes = Len(balls)

\* A tick spawned a batch and removed dead balls from the front of the
\* collection, which it left non-empty.
C26_RemovedInLoop ==
  /\ lastCall.op = "frame" /\ lastCall.arg = "update" /\ spawned # <<>>
  /\ spawned[1].added > 0
  /\ balls # <<>>
  /\ Len(balls) < spawned[1].before + spawned[1].added

\* C27: spawnInterval is always max(0.3 s, 2.0 s - 0.1 s * precipitation) of the
\* active profile; the spawn timer is never negative and below spawnInterval at
\* the end of every tick; a tick adds its delta time to the timer and resets it
\* to 0 exactly when the sum has reached spawnInterval, also when the cap of
\* maxBalls left no room for a new ball.  (SpecTimer)
C27_SpawnTimerBelowInterval ==
  /\ [](spawnInterval = Max(300, 2000 - weatherData.precipitation))
  /\ [](0 <= spawnTimer /\ spawnTimer < spawnInterval)
  /\ [][(lastCall'.op = "frame" /\ lastCall'.arg = "update") =>
          \E dt \in {DtFrame, DtTick} :
            spawnTimer' = IF spawnTimer + dt >= spawnInterval THEN 0
                          ELSE spawnTimer + dt]_vars

\* After frames of DtFrame let the timer accumulate, a tick found the
\* collection at maxBalls, added no ball and reset the timer.
C27_ResetAtCap ==
  /\ lastCall.op = "frame" /\ lastCall.arg = "update"
  /\ ticks > 0
  /\ spawned # <<>> /\ spawned[1].before = maxBalls /\ spawned[1].added = 0
  /\ spawnTimer = 0

\* The note that ball k of the pair owes to its boundary check: one, of its
\* noteIndex, the profile's scale, the speed |velocity.y| it met the floor with
\* and duration 0.2 s, if it was below the floor, moving down faster than 0.1.
floorNote(q, k) ==
  LET b == ballOf(q, k)
      speed == abs(Frac(b.velocity.c[2], b.velocity.d))
  IN  IF /\ b.position.c[2] < b.size * b.position.d
         /\ b.velocity.c[2] < 0
         /\ speed.n * 10 > speed.d
      THEN <<[noteIndex |-> b.noteIndex, isMajor |-> weatherData.isMajorScale,
              velocity |-> speed, duration |-> 20]>>
      ELSE <<>>

insidePit(p, size) ==
  /\ p.c[2] >= size * p.d
  /\ p.c[1] <= (pitBounds.width \div 2 - size) * p.d
  /\ 0 - p.c[1] <= (pitBounds.width \div 2 - size) * p.d
  /\ p.c[3] <= (pitBounds.depth \div 2 - size) * p.d
  /\ 0 - p.c[3] <= (pitBounds.depth \div 2 - size) * p.d

\* C30, as stated: at the end of a tick of update() every live ball lies inside
\* the pit, position.y >= size, |position.x| <= width/2 - size and
\* |position.z| <= depth/2 - size, also after the collision pass has moved the
\* balls of an overlapping pair apart.  (SpecBounds)
C30_InsidePitAfterTick ==
  pair.done =>
    /\ insidePit(pair.after.position1, pair.after.size1)
    /\ insidePit(pair.after.position2, pair.after.size2)

\* C29, as stated: on an initialised engine, for every clamped ADSR
\* configuration, velocity and duration, playNote schedules its envelope
\* without raising: peak min(0.4, 0.1 * velocity), times
\* now <= attackEnd <= decayEnd <= sustainEnd <= releaseEnd, a hold of
\* max(0, duration - attack - decay), and the oscillator stopped at releaseEnd.
\* (SpecEnvelope)
C29_EnvelopeScheduled ==
  (lastCall.op = "playNote" /\ lastCall.arg # <<>>) =>
    LET e == lastCall.arg[1]
    IN  /\ ~e.raised
        /\ e.volume = Min(400, e.velocity)
        /\ e.now <= e.attackEnd /\ e.attackEnd <= e.decayEnd
        /\ e.decayEnd <= e.sustainEnd /\ e.sustainEnd <= e.releaseEnd
        /\ e.sustainEnd - e.decayEnd = Max(0, e.duration - e.adsr.attack - e.adsr.decay)
        /\ e.stop = <<e.releaseEnd>>

\* A note of positive velocity raised on an envelope with sustain 0.
C29_RaisedOnZeroSustain ==
  /\ lastCall.op = "playNote" /\ lastCall.arg # <<>>
  /\ lastCall.arg[1].raised
  /\ lastCall.arg[1].velocity > 0
  /\ lastCall.arg[1].adsr.sustain = 0

====
